---- MODULE Spec2Model ----
(***************************************************************************)
(* A model of UnipolMoveClient (src/unipolmove_client.py): the session     *)
(* cookies, login, the pagination loop of fetch_all_movements, the date    *)
(* filter and the payload built by generate_pdf_report.                    *)
(*                                                                         *)
(* Python values are pairs <<type, chars>>: a str is <<"str", s>> with s   *)
(* its sequence of characters, None is <<"NoneType", <<>>>>, an int is     *)
(* <<"int", digits>>, a list of one-character strings is <<"list", xs>>.   *)
(* A dict is a function from its keys to values.  A date is <<y, m, d>>.   *)
(***************************************************************************)
EXTENDS Integers, Sequences, FiniteSets, TLC

VARIABLES
    mrh_session,        \* self.mrh_session
    last_mrh_session,   \* self.last_mrh_session
    pc,                 \* where the running call stands ("idle": no call runs)
    call,               \* the running or most recent call: its arguments and outcome
    batch_size,         \* fetch_all_movements: the batch_size argument
    offset,             \* fetch_all_movements: local offset
    all_movements,      \* fetch_all_movements: local all_movements
    movements,          \* fetch_all_movements: local movements (the page just read)
    filter_args,        \* the arguments a caller passes to filter_movements_by_date
    pdf_args            \* the objects and the list a caller passes to generate_pdf_report

vars == <<mrh_session, last_mrh_session, pc, call, batch_size, offset,
          all_movements, movements, filter_args, pdf_args>>

-----------------------------------------------------------------------------
(* Bounds of the model.                                                     *)

MaxMovements == 2    \* longest list given to the filter and to the report
MaxObjects == 2      \* most record objects a caller of the report holds
MaxBatch == 2        \* largest batch_size
MaxPages == 2        \* most pages of batch_size or more records the service serves

-----------------------------------------------------------------------------
(* Python values.                                                           *)

PyStr(s) == <<"str", s>>
PyInt(digits) == <<"int", digits>>
PyList(items) == <<"list", items>>
PyNone == <<"NoneType", <<>>>>
PyTrue == <<"bool", <<"T", "r", "u", "e">>>>
PyFalse == <<"bool", <<"F", "a", "l", "s", "e">>>>

TypeOf(v) == v[1]

\* bool(v): the truth value Python's `or` and `if` test
Truthy(v) ==
    CASE TypeOf(v) = "NoneType" -> FALSE
      [] TypeOf(v) = "bool" -> v = PyTrue
      [] TypeOf(v) = "int" -> \E i \in 1..Len(v[2]) : v[2][i] # "0"
      [] OTHER -> Len(v[2]) > 0

\* d.get(key, default)
DictGet(d, key, default) == IF key \in DOMAIN d THEN d[key] ELSE default

DigitChars == <<"0", "1", "2", "3", "4", "5", "6", "7", "8", "9">>

IsDigit(c) == \E i \in 1..10 : DigitChars[i] = c

DigitVal(c) == (CHOOSE i \in 1..10 : DigitChars[i] = c) - 1

AllDigits(s) == \A i \in 1..Len(s) : IsDigit(s[i])

RECURSIVE Num(_)
\* int(s) for a string of digits
Num(s) ==
    IF Len(s) = 0 THEN 0
    ELSE 10 * Num(SubSeq(s, 1, Len(s) - 1)) + DigitVal(s[Len(s)])

RECURSIVE str(_)
\* str(n) for an int n >= 0: its decimal digits
str(n) ==
    IF n < 10 THEN <<DigitChars[n + 1]>>
    ELSE str(n \div 10) \o <<DigitChars[(n % 10) + 1]>>

-----------------------------------------------------------------------------
(* Dates: datetime.strptime(s, "%Y-%m-%d") and datetime.fromisoformat(s).   *)

IsLeap(y) == y % 4 = 0 /\ (y % 100 # 0 \/ y % 400 = 0)

DaysInMonth(y, m) ==
    IF m = 2 THEN (IF IsLeap(y) THEN 29 ELSE 28)
    ELSE IF m \in {4, 6, 9, 11} THEN 30 ELSE 31

\* the date constructor's range check
ValidDate(y, m, d) ==
    /\ y >= 1
    /\ m >= 1 /\ m <= 12
    /\ d >= 1 /\ d <= DaysInMonth(y, m)

NoDate == <<0, 0, 0>>

Parsed(y, m, d) ==
    IF ValidDate(y, m, d) THEN [exc |-> "none", date |-> <<y, m, d>>]
    ELSE [exc |-> "ValueError", date |-> NoDate]

Raised(e) == [exc |-> e, date |-> NoDate]

\* the characters the %m directive takes at position i: "1[0-2]|0[1-9]|[1-9]",
\* the first alternative after which the "-" of the format follows
MonthWidth(s, i) ==
    IF /\ i + 2 <= Len(s)
       /\ \/ s[i] = "1" /\ s[i + 1] \in {"0", "1", "2"}
          \/ s[i] = "0" /\ IsDigit(s[i + 1]) /\ s[i + 1] # "0"
       /\ s[i + 2] = "-"
    THEN 2
    ELSE IF /\ i + 1 <= Len(s)
            /\ IsDigit(s[i]) /\ s[i] # "0"
            /\ s[i + 1] = "-"
    THEN 1
    ELSE 0

\* the characters the %d directive takes at position i:
\* "3[01]|[12]\d|0[1-9]|[1-9]| [1-9]", the first alternative that matches
DayWidth(s, i) ==
    IF /\ i + 1 <= Len(s)
       /\ \/ s[i] = "3" /\ s[i + 1] \in {"0", "1"}
          \/ s[i] \in {"1", "2"} /\ IsDigit(s[i + 1])
          \/ s[i] \in {"0", " "} /\ IsDigit(s[i + 1]) /\ s[i + 1] # "0"
    THEN 2
    ELSE IF i <= Len(s) /\ IsDigit(s[i]) /\ s[i] # "0"
    THEN 1
    ELSE 0

\* datetime.strptime(s, "%Y-%m-%d").date() for a str s: the format's regular
\* expression must match at the start and leave no character unconverted
strptime(s) ==
    IF ~(Len(s) >= 5 /\ AllDigits(SubSeq(s, 1, 4)) /\ s[5] = "-")
    THEN Raised("ValueError")
    ELSE LET mw == MonthWidth(s, 6)
             dw == DayWidth(s, 6 + mw + 1)
             ds == SubSeq(s, 6 + mw + 1, 6 + mw + dw)
         IN  IF mw = 0 \/ dw = 0 \/ 6 + mw + dw # Len(s)
             THEN Raised("ValueError")
             ELSE Parsed(Num(SubSeq(s, 1, 4)),
                         Num(SubSeq(s, 6, 5 + mw)),
                         Num(IF ds[1] = " " THEN Tail(ds) ELSE ds))

RECURSIVE replace(_, _, _)
\* s.replace(old, new) for a one-character old
replace(s, old, new) ==
    IF Len(s) = 0 THEN <<>>
    ELSE (IF Head(s) = old THEN new ELSE <<Head(s)>>)
         \o replace(Tail(s), old, new)

\* HH, HH:MM or HH:MM:SS, each field two digits
IsClock(t) ==
    /\ Len(t) \in {2, 5, 8}
    /\ \A i \in 1..Len(t) : IF i % 3 = 0 THEN t[i] = ":" ELSE IsDigit(t[i])

ClockField(t, k) ==
    IF Len(t) >= 3 * k - 1 THEN Num(SubSeq(t, 3 * k - 2, 3 * k - 1)) ELSE 0

\* the first position of a "+" or "-" in t, or Len(t) + 1
SignPos(t) ==
    IF \E i \in 1..Len(t) : t[i] \in {"+", "-"}
    THEN CHOOSE i \in 1..Len(t) :
            /\ t[i] \in {"+", "-"}
            /\ \A j \in 1..(i - 1) : t[j] \notin {"+", "-"}
    ELSE Len(t) + 1

NoDateTime == [exc |-> "ValueError", date |-> NoDate, minute |-> 0,
               aware |-> FALSE, utcoffset |-> 0]

\* datetime.fromisoformat(s) for a str s, on the format datetime.isoformat()
\* writes: YYYY-MM-DD, one separator character, HH[:MM[:SS]], and an
\* optional offset +HH:MM or -HH:MM.  minute is the time of day in minutes,
\* utcoffset the offset in minutes.
fromisoformat(s) ==
    IF ~(/\ Len(s) >= 13
         /\ AllDigits(SubSeq(s, 1, 4)) /\ s[5] = "-"
         /\ AllDigits(SubSeq(s, 6, 7)) /\ s[8] = "-"
         /\ AllDigits(SubSeq(s, 9, 10)))
    THEN NoDateTime
    ELSE LET t == SubSeq(s, 12, Len(s))
             p == SignPos(t)
             clock == SubSeq(t, 1, p - 1)
             tz == SubSeq(t, p + 1, Len(t))
             y == Num(SubSeq(s, 1, 4))
             m == Num(SubSeq(s, 6, 7))
             d == Num(SubSeq(s, 9, 10))
             aware == p <= Len(t)
         IN  IF \/ ~ValidDate(y, m, d)
                \/ ~IsClock(clock)
                \/ ClockField(clock, 1) > 23
                \/ ClockField(clock, 2) > 59
                \/ ClockField(clock, 3) > 59
                \/ aware /\ ~(/\ Len(tz) = 5 /\ IsClock(tz)
                              /\ ClockField(tz, 1) <= 23
                              /\ ClockField(tz, 2) <= 59)
             THEN NoDateTime
             ELSE [exc |-> "none",
                   date |-> <<y, m, d>>,
                   minute |-> 60 * ClockField(clock, 1) + ClockField(clock, 2),
                   aware |-> aware,
                   utcoffset |->
                       IF ~aware THEN 0
                       ELSE (IF t[p] = "-" THEN -1 ELSE 1)
                            * (60 * ClockField(tz, 1) + ClockField(tz, 2))]

\* start_date <= movement_date, on dates
DateLE(a, b) ==
    \/ a[1] < b[1]
    \/ a[1] = b[1] /\ a[2] < b[2]
    \/ a[1] = b[1] /\ a[2] = b[2] /\ a[3] <= b[3]

-----------------------------------------------------------------------------
(* filter_movements_by_date.                                                *)

\* "T" in movement_date_str
ContainsT(v) ==
    IF TypeOf(v) \in {"str", "list"}
    THEN [exc |-> "none", value |-> \E i \in 1..Len(v[2]) : v[2][i] = "T"]
    ELSE [exc |-> "TypeError", value |-> FALSE]

\* datetime.astimezone(timezone.utc).date(): the date in UTC of an aware
\* datetime
DateOfUtc(dt) ==
    LET y == dt.date[1]
        m == dt.date[2]
        d == dt.date[3]
        t == dt.minute - dt.utcoffset
    IN  IF ~dt.aware \/ (t >= 0 /\ t < 1440) THEN dt.date
        ELSE IF t < 0
        THEN (IF d > 1 THEN <<y, m, d - 1>>
              ELSE IF m > 1 THEN <<y, m - 1, DaysInMonth(y, m - 1)>>
              ELSE <<y - 1, 12, 31>>)
        ELSE (IF d < DaysInMonth(y, m) THEN <<y, m, d + 1>>
              ELSE IF m < 12 THEN <<y, m + 1, 1>>
              ELSE <<y + 1, 1, 1>>)

\* datetime.date(): the year, month and day the datetime carries
DateOf(dt) == dt.date

\* the body of the try block: the date of movement_date_str, or the
\* exception its evaluation raises
ParseMovementDate(v) ==
    LET hasT == ContainsT(v)
    IN  IF hasT.exc # "none" THEN Raised(hasT.exc)
        ELSE IF hasT.value
        THEN (IF TypeOf(v) # "str" THEN Raised("AttributeError")
              ELSE LET dt == fromisoformat(replace(v[2], "Z",
                                   <<"+", "0", "0", ":", "0", "0">>))
                   IN  IF dt.exc # "none" THEN Raised(dt.exc)
                       ELSE [exc |-> "none", date |-> DateOf(dt)])
        ELSE (IF TypeOf(v) # "str" THEN Raised("TypeError")
              ELSE strptime(v[2]))

\* movement.get("dataIngresso") or movement.get("dataUscita", "")
ResolveDateStr(movement) ==
    LET ingresso == DictGet(movement, "dataIngresso", PyNone)
    IN  IF Truthy(ingresso) THEN ingresso
        ELSE DictGet(movement, "dataUscita", PyStr(<<>>))

\* the exceptions the except clause catches
Caught == {"ValueError", "AttributeError"}

RECURSIVE FilterLoop(_, _, _, _, _)
\* the for loop from its i-th iteration on, filtered_movements being acc:
\* the list built, how many records were processed, and the exception that
\* left the loop ("none" when it ran to its end)
FilterLoop(movs, start_date, end_date, i, acc) ==
    IF i > Len(movs)
    THEN [exc |-> "none", filtered_movements |-> acc, processed |-> i - 1]
    ELSE LET movement_date_str == ResolveDateStr(movs[i])
             r == ParseMovementDate(movement_date_str)
         IN  IF ~Truthy(movement_date_str)
             THEN FilterLoop(movs, start_date, end_date, i + 1, acc)
             ELSE IF r.exc = "none"
             THEN FilterLoop(movs, start_date, end_date, i + 1,
                     IF DateLE(start_date, r.date) /\ DateLE(r.date, end_date)
                     THEN Append(acc, movs[i]) ELSE acc)
             ELSE IF r.exc \in Caught
             THEN FilterLoop(movs, start_date, end_date, i + 1, acc)
             ELSE [exc |-> r.exc, filtered_movements |-> acc,
                   processed |-> i - 1]

filter_movements_by_date(movs, start_date, end_date) ==
    FilterLoop(movs, start_date, end_date, 1, <<>>)

-----------------------------------------------------------------------------
(* The date values of the records the filter is run on.                     *)

\* "2024-02-29"
D0229 ==
    PyStr(<<"2", "0", "2", "4", "-", "0", "2", "-", "2", "9">>)

\* "2024-03-01"
D0301 ==
    PyStr(<<"2", "0", "2", "4", "-", "0", "3", "-", "0", "1">>)

\* "2024-03-02"
D0302 ==
    PyStr(<<"2", "0", "2", "4", "-", "0", "3", "-", "0", "2">>)

\* "2024-3-1"
DShort ==
    PyStr(<<"2", "0", "2", "4", "-", "3", "-", "1">>)

\* "2024-02-30"
DBadDay ==
    PyStr(<<"2", "0", "2", "4", "-", "0", "2", "-", "3", "0">>)

\* "n/a"
DWords ==
    PyStr(<<"n", "/", "a">>)

\* "TBD"
DTbd ==
    PyStr(<<"T", "B", "D">>)

\* "2024-03-01T23:30:00Z"
TsZ ==
    PyStr(<<"2", "0", "2", "4", "-", "0", "3", "-", "0", "1", "T", "2", "3", ":", "3", "0", ":", "0", "0", "Z">>)

\* "2024-03-01T00:30:00+02:00"
TsPlus ==
    PyStr(<<"2", "0", "2", "4", "-", "0", "3", "-", "0", "1", "T", "0", "0", ":", "3", "0", ":", "0", "0", "+", "0", "2", ":", "0", "0">>)

\* "2024-03-01T22:00:00-05:00"
TsMinus ==
    PyStr(<<"2", "0", "2", "4", "-", "0", "3", "-", "0", "1", "T", "2", "2", ":", "0", "0", ":", "0", "0", "-", "0", "5", ":", "0", "0">>)

\* "2024-03-02T10:00:00"
TsNaive ==
    PyStr(<<"2", "0", "2", "4", "-", "0", "3", "-", "0", "2", "T", "1", "0", ":", "0", "0", ":", "0", "0">>)

IntDate == PyInt(<<"2", "0", "2", "4", "0", "3", "0", "1">>)

ListT == PyList(<<"T">>)

ListX == PyList(<<"x">>)

Dict1(k, v) == k :> v

Dict2(k1, v1, k2, v2) == (k1 :> v1) @@ (k2 :> v2)

EmptyDict == [k \in {} |-> PyNone]

\* the movement records the filter is run on
FilterRecords ==
    { Dict1("dataIngresso", D0301),
      Dict2("dataIngresso", D0229, "dataUscita", D0302),
      Dict1("dataUscita", D0302),
      Dict2("dataIngresso", PyStr(<<>>), "dataUscita", D0301),
      Dict2("dataIngresso", PyNone, "dataUscita", DShort),
      Dict1("dataIngresso", DBadDay),
      Dict2("dataIngresso", DWords, "dataUscita", D0301),
      Dict1("dataIngresso", DTbd),
      Dict1("dataIngresso", TsZ),
      Dict1("dataIngresso", TsPlus),
      Dict1("dataUscita", TsMinus),
      Dict1("dataIngresso", TsNaive),
      EmptyDict,
      Dict1("dataIngresso", IntDate),
      Dict1("dataIngresso", ListT),
      Dict1("dataIngresso", ListX) }

\* the dates a range is drawn from
Days == {<<2024, 2, 29>>, <<2024, 3, 1>>, <<2024, 3, 2>>}

SeqsUpTo(S, n) == UNION {[1..k -> S] : k \in 0..n}

\* the calls of the filter: every list of up to MaxMovements records and every
\* range with start_date <= end_date
FilterArgs ==
    { a \in [movements : SeqsUpTo(FilterRecords, MaxMovements),
             start_date : Days, end_date : Days] :
        DateLE(a.start_date, a.end_date) }

NoFilterArgs ==
    [movements |-> <<>>, start_date |-> <<2024, 3, 1>>, end_date |-> <<2024, 3, 1>>]

\* the calls of the filter a session makes
SessionFilterArgs ==
    { [movements |-> <<Dict1("dataIngresso", D0301), Dict1("dataUscita", D0302)>>,
       start_date |-> <<2024, 3, 1>>, end_date |-> <<2024, 3, 1>>],
      [movements |-> <<Dict1("dataIngresso", IntDate)>>,
       start_date |-> <<2024, 2, 29>>, end_date |-> <<2024, 3, 2>>] }

-----------------------------------------------------------------------------
(* generate_pdf_report.  The caller's record objects live in a heap, a      *)
(* sequence of dicts; a reference is an index into it; the list movements   *)
(* is a sequence of references, so one object may occur in it twice.        *)

\* movement.copy() aliased: no new object
DictAlias(heap, ref) == [heap |-> heap, ref |-> ref]

\* movement.copy(): a new object with the keys and values of heap[ref]
DictCopy(heap, ref) ==
    [heap |-> Append(heap, heap[ref]), ref |-> Len(heap) + 1]

\* heap[ref][key] = value
SetItem(heap, ref, key, value) ==
    [heap EXCEPT ![ref] = (key :> value) @@ @]

\* the positional id, one-based
PositionalIdFrom1(idx) == PyStr(str(idx + 1))

\* str(idx)
PositionalId(idx) == PyStr(str(idx))

RECURSIVE PdfLoop(_, _, _, _)
\* the for loop over enumerate(movements) from index idx on (zero-based):
\* the heap it leaves and movements_with_check
PdfLoop(heap, movs, idx, movements_with_check) ==
    IF idx >= Len(movs)
    THEN [heap |-> heap, movements_with_check |-> movements_with_check]
    ELSE LET c == DictCopy(heap, movs[idx + 1])
             h1 == SetItem(c.heap, c.ref, "checked", PyTrue)
             h2 == SetItem(h1, c.ref, "id", PositionalId(idx))
         IN  PdfLoop(h2, movs, idx + 1, Append(movements_with_check, c.ref))

\* json=payload: the payload as it is serialised when it is posted
Payload(heap, intestatario, movements_with_check) ==
    [intestatario |-> intestatario,
     listaMovimenti |-> [i \in 1..Len(movements_with_check) |->
                            heap[movements_with_check[i]]]]

Saldo == PyStr(<<"2", ".", "5", "0">>)

\* the record objects a caller of the report holds
PdfRecords ==
    { Dict1("saldo", Saldo),
      Dict2("saldo", Saldo, "checked", PyFalse),
      Dict2("saldo", Saldo, "id", PyStr(<<"7">>)),
      Dict2("checked", PyStr(<<"n", "o">>), "id", PyStr(<<"0">>)) }

\* the calls of the report: up to MaxObjects record objects and every list of
\* up to MaxMovements references to them
PdfArgs ==
    UNION { { [heap |-> h, movements |-> m] :
                m \in SeqsUpTo(1..Len(h), MaxMovements) } :
            h \in SeqsUpTo(PdfRecords, MaxObjects) }

NoPdfArgs == [heap |-> <<>>, movements |-> <<>>]

\* the calls of the report a session makes
SessionPdfArgs ==
    { [heap |-> <<Dict1("saldo", Saldo)>>, movements |-> <<1>>], NoPdfArgs }

-----------------------------------------------------------------------------
(* HTTP responses.  requests.get and requests.post either raise (no         *)
(* response: a transport error) or return a response; raise_for_status      *)
(* raises on an error status.                                               *)

\* the value of an unset attribute or argument
None == "None"

CookieNames == {"MRHSession", "LastMRH_Session"}

CookieValues == {"s1", "s2"}

\* response.cookies: the cookies a response sets, by name
CookieJars == UNION {[S -> CookieValues] : S \in SUBSET CookieNames}

LoginResponses ==
    {[kind |-> "transport_error", cookies |-> EmptyDict]}
    \cup [kind : {"http_error", "ok"}, cookies : CookieJars]

\* the exception a call of requests raises on this response, or "none"
RaiseForStatus(response) ==
    CASE response.kind = "transport_error" -> "ConnectionError"
      [] response.kind = "http_error" -> "HTTPError"
      [] OTHER -> "none"

\* the i-th record of the listing the service pages through
Movement(i) == i

\* offset, offset + 1, ...: n records of the listing
Page(first, n) == [i \in 1..n |-> Movement(first + i - 1)]

\* the responses of the movements endpoint to a request of limit records from
\* offset on: a failure, a body without listaMovimenti or with a null one,
\* or a list of fewer than limit records, and when full is TRUE also of limit
\* records and of one more
PageResponses(first, limit, full) ==
    [kind : {"transport_error", "http_error"}, json : {EmptyDict}]
    \cup [kind : {"ok"},
          json : {EmptyDict, Dict1("listaMovimenti", PyNone)}
                 \cup { Dict1("listaMovimenti", PyList(Page(first, n))) :
                          n \in 0..(IF full THEN limit + 1 ELSE limit - 1) }]

BatchSizes == 1..MaxBatch

-----------------------------------------------------------------------------
(* The client.                                                              *)

Idle == pc = "idle"

NoFrame ==
    /\ batch_size' = 0
    /\ offset' = 0
    /\ all_movements' = <<>>
    /\ movements' = PyNone

\* "MRHSession" in cookies and "LastMRH_Session" in cookies
HasSessionCookies(cookies) ==
    "MRHSession" \in DOMAIN cookies /\ "LastMRH_Session" \in DOMAIN cookies

\* the value returned with the two cookies tested with `or`
LoginValueAny(response) ==
    "MRHSession" \in DOMAIN response.cookies
        \/ "LastMRH_Session" \in DOMAIN response.cookies

\* the value login returns on a response that raised nothing
LoginValue(response) == HasSessionCookies(response.cookies)

\* the cookie attributes stored before the test
StoreCookiesEager(response) ==
    /\ mrh_session' = DictGet(response.cookies, "MRHSession", mrh_session)
    /\ last_mrh_session' =
           DictGet(response.cookies, "LastMRH_Session", last_mrh_session)

\* the assignments of login, reached on a response that raised nothing
StoreCookies(response) ==
    IF HasSessionCookies(response.cookies)
    THEN /\ mrh_session' = response.cookies["MRHSession"]
         /\ last_mrh_session' = response.cookies["LastMRH_Session"]
    ELSE UNCHANGED <<mrh_session, last_mrh_session>>

\* login(username, password)
Login ==
    /\ Idle
    /\ \E response \in LoginResponses :
         LET exc == RaiseForStatus(response)
         IN  IF exc # "none"
             THEN /\ call' = [op |-> "login", response |-> response,
                              status |-> "raised", exc |-> exc, value |-> FALSE]
                  /\ UNCHANGED <<mrh_session, last_mrh_session>>
             ELSE /\ call' = [op |-> "login", response |-> response,
                              status |-> "returned", exc |-> "none",
                              value |-> LoginValue(response)]
                  /\ StoreCookies(response)
    /\ UNCHANGED <<pc, batch_size, offset, all_movements, movements,
                   filter_args, pdf_args>>

\* fetch_movements on the response its request gets: response.json(), or the
\* exception raised
fetch_movements(response) ==
    [exc |-> RaiseForStatus(response), json |-> response.json]

\* fetch_movements(offset=1, limit=limit), called by the user
FetchMovements ==
    /\ Idle
    /\ \E limit \in BatchSizes :
         \E response \in PageResponses(1, limit, TRUE) :
           LET r == fetch_movements(response)
           IN  call' = [op |-> "fetch_movements", offset |-> 1, limit |-> limit,
                        response |-> response,
                        status |-> IF r.exc = "none" THEN "returned" ELSE "raised",
                        exc |-> r.exc, value |-> r.json]
    /\ UNCHANGED <<mrh_session, last_mrh_session, pc, batch_size, offset,
                   all_movements, movements, filter_args, pdf_args>>

\* fetch_all_movements(batch_size): all_movements = [], offset = 1
FetchAllStart ==
    /\ Idle
    /\ \E b \in BatchSizes :
         /\ batch_size' = b
         /\ call' = [op |-> "fetch_all_movements", batch_size |-> b,
                     requests |-> <<>>, status |-> "running", exc |-> "none",
                     value |-> <<>>]
    /\ offset' = 1
    /\ all_movements' = <<>>
    /\ movements' = PyNone
    /\ pc' = "fa_request"
    /\ UNCHANGED <<mrh_session, last_mrh_session, filter_args, pdf_args>>

\* the request of a page, as sent and answered
Request(response) == [offset |-> offset, limit |-> batch_size, response |-> response]

\* a failed page swallowed: the loop is left with what was accumulated
FetchAllRequestSwallow ==
    /\ pc = "fa_request"
    /\ \E response \in PageResponses(offset, batch_size,
                                     Len(call.requests) < MaxPages) :
         LET r == fetch_movements(response)
         IN  /\ call' = [call EXCEPT !.requests = Append(@, Request(response))]
             /\ IF r.exc # "none"
                THEN pc' = "fa_return" /\ movements' = PyNone
                ELSE /\ movements' = DictGet(r.json, "listaMovimenti", PyList(<<>>))
                     /\ pc' = "fa_check"
    /\ UNCHANGED <<mrh_session, last_mrh_session, batch_size, offset,
                   all_movements, filter_args, pdf_args>>

\* response = self.fetch_movements(...); movements = response.get(...): an
\* exception of fetch_movements leaves fetch_all_movements
FetchAllRequest ==
    /\ pc = "fa_request"
    /\ \E response \in PageResponses(offset, batch_size,
                                     Len(call.requests) < MaxPages) :
         LET r == fetch_movements(response)
         IN  IF r.exc # "none"
             THEN /\ call' = [call EXCEPT
                                !.requests = Append(@, Request(response)),
                                !.status = "raised", !.exc = r.exc]
                  /\ pc' = "idle"
                  /\ NoFrame
             ELSE /\ call' = [call EXCEPT !.requests = Append(@, Request(response))]
                  /\ movements' = DictGet(r.json, "listaMovimenti", PyList(<<>>))
                  /\ pc' = "fa_check"
                  /\ UNCHANGED <<batch_size, offset, all_movements>>
    /\ UNCHANGED <<mrh_session, last_mrh_session, filter_args, pdf_args>>

\* the loop body without the test of a short page
FetchAllCheckNoShortBreak ==
    /\ pc = "fa_check"
    /\ IF ~Truthy(movements)
       THEN pc' = "fa_return" /\ UNCHANGED <<all_movements, offset>>
       ELSE /\ all_movements' = all_movements \o movements[2]
            /\ offset' = offset + batch_size
            /\ pc' = "fa_request"
    /\ UNCHANGED <<mrh_session, last_mrh_session, call, batch_size, movements,
                   filter_args, pdf_args>>

\* the loop body with the test of a short page before the extend
FetchAllCheckBreakFirst ==
    /\ pc = "fa_check"
    /\ IF ~Truthy(movements) \/ Len(movements[2]) < batch_size
       THEN pc' = "fa_return" /\ UNCHANGED <<all_movements, offset>>
       ELSE /\ all_movements' = all_movements \o movements[2]
            /\ offset' = offset + batch_size
            /\ pc' = "fa_request"
    /\ UNCHANGED <<mrh_session, last_mrh_session, call, batch_size, movements,
                   filter_args, pdf_args>>

\* if not movements: break; all_movements.extend(movements);
\* if len(movements) < batch_size: break; offset += batch_size
FetchAllCheck ==
    /\ pc = "fa_check"
    /\ IF ~Truthy(movements)
       THEN pc' = "fa_return" /\ UNCHANGED <<all_movements, offset>>
       ELSE /\ all_movements' = all_movements \o movements[2]
            /\ IF Len(movements[2]) < batch_size
               THEN pc' = "fa_return" /\ UNCHANGED offset
               ELSE offset' = offset + batch_size /\ pc' = "fa_request"
    /\ UNCHANGED <<mrh_session, last_mrh_session, call, batch_size, movements,
                   filter_args, pdf_args>>

\* return all_movements
FetchAllReturn ==
    /\ pc = "fa_return"
    /\ call' = [call EXCEPT !.status = "returned", !.value = all_movements]
    /\ pc' = "idle"
    /\ NoFrame
    /\ UNCHANGED <<mrh_session, last_mrh_session, filter_args, pdf_args>>

\* filter_movements_by_date(movements, start_date, end_date)
FilterMovementsByDate ==
    /\ Idle
    /\ LET r == filter_movements_by_date(filter_args.movements,
                    filter_args.start_date, filter_args.end_date)
       IN  call' = [op |-> "filter_movements_by_date",
                    status |-> IF r.exc = "none" THEN "returned" ELSE "raised",
                    exc |-> r.exc,
                    value |-> IF r.exc = "none" THEN r.filtered_movements ELSE <<>>,
                    filtered_movements |-> r.filtered_movements,
                    processed |-> r.processed]
    /\ UNCHANGED <<mrh_session, last_mrh_session, pc, batch_size, offset,
                   all_movements, movements, filter_args, pdf_args>>

PdfResponses == [kind : {"transport_error", "http_error", "ok"}]

\* generate_pdf_report(movements, intestatario)
GeneratePdfReport ==
    /\ Idle
    /\ \E response \in PdfResponses :
         LET r == PdfLoop(pdf_args.heap, pdf_args.movements, 0, <<>>)
             exc == RaiseForStatus(response)
         IN  call' = [op |-> "generate_pdf_report",
                      payload |-> Payload(r.heap, "JOHN DOE", r.movements_with_check),
                      response |-> response,
                      status |-> IF exc = "none" THEN "returned" ELSE "raised",
                      exc |-> exc,
                      heap |-> r.heap,
                      movements |-> pdf_args.movements]
    /\ UNCHANGED <<mrh_session, last_mrh_session, pc, batch_size, offset,
                   all_movements, movements, filter_args, pdf_args>>

-----------------------------------------------------------------------------
(* Specifications.                                                          *)

Constructed ==
    /\ pc = "idle"
    /\ call = [op |-> "__init__", status |-> "returned", exc |-> "none"]
    /\ batch_size = 0
    /\ offset = 0
    /\ all_movements = <<>>
    /\ movements = PyNone

\* a client as constructed, with or without cookies of an earlier session
Init ==
    /\ mrh_session \in {None, "c0"}
    /\ last_mrh_session \in {None, "c0"}
    /\ Constructed
    /\ filter_args \in SessionFilterArgs
    /\ pdf_args \in SessionPdfArgs

Next ==
    \/ Login
    \/ FetchMovements
    \/ FetchAllStart
    \/ FetchAllRequest
    \/ FetchAllCheck
    \/ FetchAllReturn
    \/ FilterMovementsByDate
    \/ GeneratePdfReport

Spec == Init /\ [][Next]_vars

\* the client's own steps are taken: a running fetch_all_movements goes on
LiveSpec ==
    Init /\ [][Next]_vars /\ WF_vars(FetchAllCheck) /\ WF_vars(FetchAllReturn)

\* the filter on every list and range of FilterArgs
FilterInit ==
    /\ mrh_session = None
    /\ last_mrh_session = None
    /\ Constructed
    /\ filter_args \in FilterArgs
    /\ pdf_args = NoPdfArgs

FilterNext == FilterMovementsByDate

FilterSpec == FilterInit /\ [][FilterNext]_vars

\* the report on every heap and list of PdfArgs
PdfInit ==
    /\ mrh_session = None
    /\ last_mrh_session = None
    /\ Constructed
    /\ filter_args = NoFilterArgs
    /\ pdf_args \in PdfArgs

PdfNext == GeneratePdfReport

PdfSpec == PdfInit /\ [][PdfNext]_vars

-----------------------------------------------------------------------------
(* What the claims speak of, stated apart from the code above.              *)

\* the calendar date each date value of FilterRecords denotes, as written
\* in it; NoDate for a value that is no date-only or timestamp string
WrittenDate(v) ==
    CASE v \in {D0229} -> <<2024, 2, 29>>
      [] v \in {D0301, DShort, TsZ, TsPlus, TsMinus} -> <<2024, 3, 1>>
      [] v \in {D0302, TsNaive} -> <<2024, 3, 2>>
      [] OTHER -> NoDate

\* the date in UTC of the instant a timestamp with Z or an offset denotes:
\* 2024-03-01T00:30:00+02:00 is 2024-02-29T22:30:00Z, and
\* 2024-03-01T22:00:00-05:00 is 2024-03-02T03:00:00Z
UtcDate(v) ==
    CASE v = TsZ -> <<2024, 3, 1>>
      [] v = TsPlus -> <<2024, 2, 29>>
      [] v = TsMinus -> <<2024, 3, 2>>
      [] OTHER -> NoDate

\* dataIngresso if present and non-empty, otherwise dataUscita
ResolvedField(r) ==
    IF "dataIngresso" \in DOMAIN r /\ r["dataIngresso"] \notin {PyNone, PyStr(<<>>)}
    THEN r["dataIngresso"]
    ELSE IF "dataUscita" \in DOMAIN r THEN r["dataUscita"] ELSE PyNone

InRange(d) ==
    /\ d # NoDate
    /\ DateLE(filter_args.start_date, d)
    /\ DateLE(d, filter_args.end_date)

FilterCalled == call.op = "filter_movements_by_date"

InRangeAsWritten(r) == InRange(WrittenDate(ResolvedField(r)))

HasOffsetTimestamp(r) == ResolvedField(r) \in {TsZ, TsPlus, TsMinus}

OffsetInRangeUtc(r) ==
    HasOffsetTimestamp(r) /\ InRange(UtcDate(ResolvedField(r)))

OffsetInRangeAsWritten(r) ==
    HasOffsetTimestamp(r) /\ InRange(WrittenDate(ResolvedField(r)))

\* the records the loop of the filter went through
Processed == SubSeq(filter_args.movements, 1, call.processed)

\* C1: for every list of records and every range start <= end,
\* filter_movements_by_date returns exactly the records whose resolved date
\* parses and lies in [start, end], bounds included, in their input order.
C1_FilterReturnsRecordsInRange ==
    FilterCalled =>
        /\ call.status = "returned"
        /\ call.value = SelectSeq(filter_args.movements, InRangeAsWritten)

\* C2: filter_movements_by_date never raises: a record whose resolved date
\* field cannot be parsed is left out of the result, and the other records
\* of the list are still filtered.
C2_FilterNeverRaises ==
    FilterCalled =>
        /\ call.exc = "none"
        /\ call.processed = Len(filter_args.movements)
        /\ \A i \in 1..Len(call.value) :
              WrittenDate(ResolvedField(call.value[i])) # NoDate
        /\ \A i \in 1..Len(filter_args.movements) :
              InRangeAsWritten(filter_args.movements[i]) =>
                  \E j \in 1..Len(call.value) :
                      call.value[j] = filter_args.movements[i]

\* C10 as stated: the date compared against [start, end] for a timestamp with
\* Z or an offset is the UTC date of its instant, so a record the loop went
\* through is kept exactly when that UTC date lies in the range.
C10_ComparesUtcDate ==
    FilterCalled =>
        SelectSeq(call.filtered_movements, HasOffsetTimestamp)
            = SelectSeq(Processed, OffsetInRangeUtc)

\* C10 as amended: the date compared against [start, end] for a timestamp
\* with Z or an offset is the calendar date written in the timestamp, at its
\* own offset; no conversion to UTC takes place.  A record the loop went
\* through is kept exactly when that written date lies in the range.
C10_ComparesWrittenDate ==
    FilterCalled =>
        SelectSeq(call.filtered_movements, HasOffsetTimestamp)
            = SelectSeq(Processed, OffsetInRangeAsWritten)

\* C10 witness: 2024-03-01T00:30:00+02:00, whose UTC date is 2024-02-29, is
\* kept by the range [2024-03-01, 2024-03-01].
C10_Witness ==
    /\ FilterCalled
    /\ filter_args.start_date = <<2024, 3, 1>>
    /\ filter_args.end_date = <<2024, 3, 1>>
    /\ Len(call.value) = 1
    /\ ResolvedField(call.value[1]) = TsPlus

FetchAllCalled == call.op = "fetch_all_movements"

\* a page that ends the pagination: listaMovimenti missing, null, empty or
\* of fewer records than were asked for
ShortPage(req) ==
    /\ req.response.kind = "ok"
    /\ \/ "listaMovimenti" \notin DOMAIN req.response.json
       \/ TypeOf(req.response.json["listaMovimenti"]) = "NoneType"
       \/ Len(req.response.json["listaMovimenti"][2]) < req.limit

Failed(req) == req.response.kind # "ok"

\* the records of the page a request got
RecordsOf(req) ==
    IF /\ req.response.kind = "ok"
       /\ "listaMovimenti" \in DOMAIN req.response.json
       /\ TypeOf(req.response.json["listaMovimenti"]) = "list"
    THEN req.response.json["listaMovimenti"][2]
    ELSE <<>>

RECURSIVE PagesConcat(_)
PagesConcat(reqs) ==
    IF Len(reqs) = 0 THEN <<>>
    ELSE PagesConcat(SubSeq(reqs, 1, Len(reqs) - 1)) \o RecordsOf(reqs[Len(reqs)])

RECURSIVE PagesCount(_)
PagesCount(reqs) ==
    IF Len(reqs) = 0 THEN 0
    ELSE PagesCount(Tail(reqs)) + Len(RecordsOf(Head(reqs)))

LastRequest == call.requests[Len(call.requests)]

\* the pages are asked for at 1, 1 + batch_size, ..., and none after a short page
OffsetsAndStop ==
    FetchAllCalled =>
        \A i \in 1..Len(call.requests) :
            /\ call.requests[i].offset = 1 + (i - 1) * call.batch_size
            /\ call.requests[i].limit = call.batch_size
            /\ i < Len(call.requests) => ~ShortPage(call.requests[i])

GotShortPage ==
    FetchAllCalled /\ Len(call.requests) > 0 /\ ShortPage(LastRequest)

FetchAllReturned == FetchAllCalled /\ call.status = "returned" /\ pc = "idle"

\* C3: fetch_all_movements(batch_size) requests pages at offsets 1,
\* 1 + batch_size, 1 + 2*batch_size, ..., issues no request after the first
\* page whose listaMovimenti is empty, missing or shorter than batch_size,
\* and once the service has returned such a page it eventually returns.
C3_PaginationStopsAtShortPage ==
    /\ []OffsetsAndStop
    /\ [][(GotShortPage /\ pc # "idle") => call'.requests = call.requests]_vars
    /\ (GotShortPage ~> FetchAllReturned)

\* C3 witness: a call with batch_size 2 that returned after two or more
\* requests, the last page holding one record.
C3_Witness ==
    /\ FetchAllReturned
    /\ Len(call.requests) >= 2
    /\ call.batch_size = 2
    /\ Len(RecordsOf(LastRequest)) = 1

\* C4: when fetch_all_movements returns, its result is the concatenation, in
\* request order, of the listaMovimenti of every page it fetched, and its
\* length is the sum of the pages' record counts.
C4_ResultIsConcatenationOfPages ==
    (FetchAllCalled /\ call.status = "returned") =>
        /\ call.value = PagesConcat(call.requests)
        /\ Len(call.value) = PagesCount(call.requests)

\* C4 witness: a result of a full page followed by a short, non-empty page.
C4_Witness ==
    /\ FetchAllCalled
    /\ call.status = "returned"
    /\ Len(call.requests) = 2
    /\ Len(RecordsOf(call.requests[1])) = 2
    /\ Len(RecordsOf(call.requests[2])) = 1
    /\ Len(call.value) = 3

PdfCalled == call.op = "generate_pdf_report"

\* C6: generate_pdf_report never mutates its input: after the call, returned
\* or raised, the list has the same references in the same order and every
\* input record has the keys and values it had before.
C6_ReportLeavesInputUnchanged ==
    PdfCalled =>
        /\ call.movements = pdf_args.movements
        /\ Len(call.heap) >= Len(pdf_args.heap)
        /\ SubSeq(call.heap, 1, Len(pdf_args.heap)) = pdf_args.heap

\* C6 witness: a call that raised, on a list naming one record twice which
\* already carried an id.
C6_Witness ==
    /\ PdfCalled
    /\ call.status = "raised"
    /\ Len(pdf_args.movements) = 2
    /\ pdf_args.movements[1] = pdf_args.movements[2]
    /\ "id" \in DOMAIN pdf_args.heap[pdf_args.movements[1]]

\* the decimal string of a zero-based index
IndexString == <<<<"0">>, <<"1">>, <<"2">>, <<"3">>, <<"4">>>>

\* the i-th record of the list given to the report
InputRecord(i) == pdf_args.heap[pdf_args.movements[i]]

\* C7: for a list of n records, the payload posted has a listaMovimenti of
\* n records in input order; record i equals input record i on every other
\* field and has checked = true and id = the decimal string of its
\* zero-based index, whatever checked or id the input record carried.
C7_PayloadCarriesCheckedAndId ==
    PdfCalled =>
        LET lm == call.payload.listaMovimenti
        IN  /\ Len(lm) = Len(pdf_args.movements)
            /\ \A i \in 1..Len(lm) :
                 /\ DOMAIN lm[i] = DOMAIN InputRecord(i) \cup {"checked", "id"}
                 /\ \A k \in DOMAIN InputRecord(i) \ {"checked", "id"} :
                      lm[i][k] = InputRecord(i)[k]
                 /\ lm[i]["checked"] = PyTrue
                 /\ lm[i]["id"] = PyStr(IndexString[i])

\* C7 witness: a payload of two records whose second input record carried
\* its own checked and id.
C7_Witness ==
    /\ PdfCalled
    /\ Len(call.payload.listaMovimenti) = 2
    /\ {"checked", "id"} \subseteq DOMAIN InputRecord(2)
    /\ InputRecord(2)["id"] # PyStr(<<"1">>)
    /\ "id" \notin DOMAIN InputRecord(1)

Authenticated == mrh_session # None /\ last_mrh_session # None

CookiesChange ==
    mrh_session' # mrh_session \/ last_mrh_session' # last_mrh_session

C9_FailedPageAbortsFetchAll ==
    FetchAllCalled =>
        \A i \in 1..Len(call.requests) :
            Failed(call.requests[i]) =>
                /\ i = Len(call.requests)
                /\ pc = "idle"
                /\ call.status = "raised"
                /\ call.exc = IF call.requests[i].response.kind = "http_error"
                              THEN "HTTPError" ELSE "ConnectionError"
                /\ call.value = <<>>

\* C9 witness: a call that raised at its second page, one full page read.
C9_Witness ==
    /\ FetchAllCalled
    /\ call.status = "raised"
    /\ Len(call.requests) = 2
    /\ Len(RecordsOf(call.requests[1])) = 2

====
